---- MODULE Spec2Model ----
(***************************************************************************)
(* Model of the `fifth` stack-machine interpreter (src/src/interpreter.rs) *)
(* and of the part of its driver (src/src/main.rs) that configures it.     *)
(*                                                                         *)
(* Text is modelled as it is processed: a source is the sequence of its    *)
(* lines, a line is the sequence of words `split_whitespace` yields, and a *)
(* word is the sequence of its character codes, so that case folding, the *)
(* '#' and ':' tests and the parsing of numbers are computed, not assumed. *)
(* Indices (pc, label targets, return addresses) are 0-based as in the     *)
(* code; TLA+ sequences are 1-based, so tokens[pc + 1] is the instruction  *)
(* at pc.  The top of a stack is the last element of its sequence.         *)
(***************************************************************************)
EXTENDS Integers, Sequences, FiniteSets, TLC

(***************************************************************************)
(* Bounds of the model.                                                    *)
(***************************************************************************)
MaxStackLines == 3      \* longest generated program of stack instructions
MaxCtlLines == 7        \* longest generated program of conditionals
MaxCallLines == 4       \* longest generated program of labels and calls
MaxFlowLines == 4       \* longest generated program mixing conditionals and calls
MaxStackSize == 2       \* largest stack capacity given to a generated program
MaxCallDepth == 3       \* call_stack is unbounded in the code: cap on its length
MaxOutput == 3          \* cap on the number of items printed in a run
MaxDriverLines == 3     \* longest generated program run by the driver

\* Vec<u8> grows past stack_size when the code does not check: the model
\* follows a stack this far past the largest capacity.
StackBound == MaxStackSize + 2

(***************************************************************************)
(* Machine integers.                                                       *)
(***************************************************************************)
U8Max == 255
\* usize is 64 bits on the targets of the program, wider than the model
\* checker's integers: a usize that comes from the source text (the argument
\* of PICK) is kept as five limbs in base 10000, most significant first, and
\* the arithmetic on it is done limb by limb, modulo 2^64 as the machine
\* does.
UsizeLimb == 10000
UsizeMax == <<1844, 6744, 737, 955, 1615>>      \* 18446744073709551615
UsizeErr == <<>>                                \* Err of str::parse::<usize>

\* the usize of a small number, and back
usize(n) ==
    <<0, 0, n \div (UsizeLimb * UsizeLimb), (n \div UsizeLimb) % UsizeLimb,
      n % UsizeLimb>>
usize_small(a) == (a[3] * UsizeLimb + a[4]) * UsizeLimb + a[5]

\* a < b
RECURSIVE usize_lt_from(_, _, _)
usize_lt_from(a, b, i) ==
    IF i > Len(a) THEN FALSE
    ELSE IF a[i] # b[i] THEN a[i] < b[i]
    ELSE usize_lt_from(a, b, i + 1)

usize_lt(a, b) == usize_lt_from(a, b, 1)

\* a - b for a >= b, from the least significant limb with a borrow
RECURSIVE usize_diff_from(_, _, _, _)
usize_diff_from(a, b, i, borrow) ==
    IF i = 0 THEN <<>>
    ELSE LET d == a[i] - b[i] - borrow IN
         Append(usize_diff_from(a, b, i - 1, IF d < 0 THEN 1 ELSE 0),
                IF d < 0 THEN d + UsizeLimb ELSE d)

usize_diff(a, b) == usize_diff_from(a, b, Len(a), 0)

\* a + 1 for a < usize::MAX
RECURSIVE usize_succ_from(_, _)
usize_succ_from(a, i) ==
    IF a[i] + 1 < UsizeLimb THEN [a EXCEPT ![i] = a[i] + 1]
    ELSE usize_succ_from([a EXCEPT ![i] = 0], i - 1)

usize_succ(a) == usize_succ_from(a, Len(a))

\* usize::wrapping_sub: a - b modulo 2^64
usize_wrapping_sub(a, b) ==
    IF usize_lt(a, b)
    THEN usize_succ(usize_diff(UsizeMax, usize_diff(b, a)))
    ELSE usize_diff(a, b)

\* a * 10 + d from the least significant limb: the limbs and the carry out
RECURSIVE usize_mul10_add(_, _, _)
usize_mul10_add(a, i, carry) ==
    IF i = 0 THEN [limbs |-> <<>>, carry |-> carry]
    ELSE LET v == a[i] * 10 + carry
             rest == usize_mul10_add(a, i - 1, v \div UsizeLimb)
         IN [limbs |-> Append(rest.limbs, v % UsizeLimb), carry |-> rest.carry]

DefaultStackSize == 256

(***************************************************************************)
(* Words of the language, as ASCII codes.                                  *)
(***************************************************************************)
W_PUSH == <<80, 85, 83, 72>>
W_POP == <<80, 79, 80>>
W_DUP == <<68, 85, 80>>
W_SWAP == <<83, 87, 65, 80>>
W_OVER == <<79, 86, 69, 82>>
W_ROTATE == <<82, 79, 84, 65, 84, 69>>
W_PICK == <<80, 73, 67, 75>>
W_ADD == <<65, 68, 68>>
W_SUB == <<83, 85, 66>>
W_PRINT_BYTE == <<80, 82, 73, 78, 84, 95, 66, 89, 84, 69>>
W_PRINT_CHAR == <<80, 82, 73, 78, 84, 95, 67, 72, 65, 82>>
W_IF == <<73, 70>>
W_ELSE == <<69, 76, 83, 69>>
W_THEN == <<84, 72, 69, 78>>
W_RETURN == <<82, 69, 84, 85, 82, 78>>
W_HALT == <<72, 65, 76, 84>>

(***************************************************************************)
(* str::to_uppercase and str::to_lowercase, starts_with, ends_with.  A     *)
(* word is the sequence of its code points.  The case mappings are those   *)
(* of Unicode on the characters up to U+00FF (ASCII and Latin-1), where    *)
(* the upper case of one character can be two (U+00DF) or lie above U+00FF *)
(* (U+00B5, U+00FF); texts with other characters are not read by the       *)
(* model, and the mappings are not defined on them.                        *)
(***************************************************************************)
char_to_uppercase(c) ==
    IF c \in 97..122 THEN <<c - 32>>
    ELSE IF c = 181 THEN <<924>>
    ELSE IF c = 223 THEN <<83, 83>>
    ELSE IF c \in 224..254 /\ c # 247 THEN <<c - 32>>
    ELSE IF c = 255 THEN <<376>>
    ELSE CASE c \in 0..255 -> <<c>>

\* the characters of an upper-cased word come from 0..255, 376 and 924
char_to_lowercase(c) ==
    IF c \in 65..90 THEN <<c + 32>>
    ELSE IF c \in 192..222 /\ c # 215 THEN <<c + 32>>
    ELSE IF c = 376 THEN <<255>>
    ELSE IF c = 924 THEN <<956>>
    ELSE CASE c \in 0..255 -> <<c>>

RECURSIVE to_uppercase(_)
to_uppercase(w) ==
    IF w = <<>> THEN <<>> ELSE char_to_uppercase(Head(w)) \o to_uppercase(Tail(w))

RECURSIVE to_lowercase(_)
to_lowercase(w) ==
    IF w = <<>> THEN <<>> ELSE char_to_lowercase(Head(w)) \o to_lowercase(Tail(w))

starts_with(w, c) == Len(w) > 0 /\ w[1] = c

ends_with(w, c) == Len(w) > 0 /\ w[Len(w)] = c

(***************************************************************************)
(* str::parse::<u8>() and str::parse::<usize>(): an optional '+', then one *)
(* or more decimal digits, the value not above max.  -1 stands for Err.    *)
(***************************************************************************)
RECURSIVE parse_digits(_, _, _, _)
parse_digits(w, i, acc, max) ==
    IF i > Len(w) THEN acc
    ELSE IF w[i] \notin 48..57 THEN -1
    ELSE LET d == w[i] - 48 IN
         IF acc > (max - d) \div 10 THEN -1
         ELSE parse_digits(w, i + 1, acc * 10 + d, max)

parse_unsigned(w, max) ==
    IF Len(w) = 0 THEN -1
    ELSE IF Len(w) = 1 /\ w[1] \in {43, 45} THEN -1
    ELSE IF w[1] = 43 THEN parse_digits(w, 2, 0, max)
    ELSE parse_digits(w, 1, 0, max)

\* str::parse::<usize>(): the same on limbs; a value above usize::MAX is Err
RECURSIVE parse_usize_digits(_, _, _)
parse_usize_digits(w, i, acc) ==
    IF i > Len(w) THEN acc
    ELSE IF w[i] \notin 48..57 THEN UsizeErr
    ELSE LET next == usize_mul10_add(acc, Len(acc), w[i] - 48) IN
         IF next.carry > 0 \/ usize_lt(UsizeMax, next.limbs) THEN UsizeErr
         ELSE parse_usize_digits(w, i + 1, next.limbs)

parse_usize(w) ==
    IF Len(w) = 0 THEN UsizeErr
    ELSE IF Len(w) = 1 /\ w[1] \in {43, 45} THEN UsizeErr
    ELSE IF w[1] = 43 THEN parse_usize_digits(w, 2, usize(0))
    ELSE parse_usize_digits(w, 1, usize(0))

(***************************************************************************)
(* Token, AnnotatedToken, and the results of parse() and step().           *)
(***************************************************************************)
Tok(op) == [op |-> op]
TokPush(value) == [op |-> "Push", value |-> value]
TokPick(index) == [op |-> "Pick", index |-> index]
TokBinOp(bin_op) == [op |-> "BinOp", bin_op |-> bin_op]
TokCall(label) == [op |-> "Call", label |-> label]

AnnotatedToken(token, line_number) ==
    [token |-> token, line_number |-> line_number]

Ok == [kind |-> "Ok"]

\* ParseError variants carrying (String, usize)
ParseErrorAt(kind, text, line_number) ==
    [kind |-> kind, text |-> text, line_number |-> line_number]

\* ParseError and RuntimeError variants carrying an AnnotatedToken
ErrorOn(kind, annotated_token) ==
    [kind |-> kind, token |-> annotated_token]

(***************************************************************************)
(* Program::parse: one instruction line to a token.                        *)
(***************************************************************************)
parse_argument(line, line_number, make) ==
    IF Len(line) < 2
    THEN ParseErrorAt("MissingArgument", line[1], line_number)
    ELSE IF make = "Push"
    THEN LET value == parse_unsigned(line[2], U8Max) IN
         IF value < 0
         THEN ParseErrorAt("InvalidArgument", line[2], line_number)
         ELSE [kind |-> "Ok", token |-> TokPush(value)]
    ELSE LET value == parse_usize(line[2]) IN
         IF value = UsizeErr
         THEN ParseErrorAt("InvalidArgument", line[2], line_number)
         ELSE [kind |-> "Ok", token |-> TokPick(value)]

parse_token(line, line_number) ==
    LET part == to_uppercase(line[1]) IN
    IF part = W_PUSH THEN parse_argument(line, line_number, "Push")
    ELSE IF part = W_PICK THEN parse_argument(line, line_number, "Pick")
    ELSE [kind |-> "Ok", token |->
            CASE part = W_POP -> Tok("Pop")
              [] part = W_DUP -> Tok("Dup")
              [] part = W_SWAP -> Tok("Swap")
              [] part = W_OVER -> Tok("Over")
              [] part = W_ROTATE -> Tok("Rotate")
              [] part = W_ADD -> TokBinOp("Add")
              [] part = W_SUB -> TokBinOp("Sub")
              [] part = W_PRINT_BYTE -> Tok("PrintByte")
              [] part = W_PRINT_CHAR -> Tok("PrintChar")
              [] part = W_IF -> Tok("If")
              [] part = W_ELSE -> Tok("Else")
              [] part = W_THEN -> Tok("Then")
              [] part = W_RETURN -> Tok("Return")
              [] part = W_HALT -> Tok("Halt")
              [] OTHER -> TokCall(part)]

\* Mutant of check_calls: the pass over the calls is left out.
check_calls_Skipped(tokens, labels) == Ok

(***************************************************************************)
(* Program::check_calls: the first Call whose label is not declared.       *)
(***************************************************************************)
RECURSIVE check_calls_from(_, _, _)
check_calls_from(tokens, labels, i) ==
    IF i > Len(tokens) THEN Ok
    ELSE IF tokens[i].token.op = "Call" /\ tokens[i].token.label \notin DOMAIN labels
    THEN ParseErrorAt("InvalidCall", tokens[i].token.label, tokens[i].line_number)
    ELSE check_calls_from(tokens, labels, i + 1)

check_calls(tokens, labels) == check_calls_from(tokens, labels, 1)

(***************************************************************************)
(* Program::check_if_statements: else_statements is the stack of           *)
(* else-counts, one per open If.                                           *)
(***************************************************************************)
RECURSIVE check_if_from(_, _, _)
check_if_from(tokens, i, else_statements) ==
    IF i > Len(tokens) THEN Ok
    ELSE LET op == tokens[i].token.op
             n == Len(else_statements)
         IN
         IF op = "If" THEN check_if_from(tokens, i + 1, Append(else_statements, 0))
         ELSE IF op = "Else" THEN
             IF n = 0 THEN ErrorOn("ElseWithoutIfStatement", tokens[i])
             ELSE IF else_statements[n] > 0
             THEN ErrorOn("TooManyElseStatements", tokens[i])
             ELSE check_if_from(tokens, i + 1,
                      Append(SubSeq(else_statements, 1, n - 1), else_statements[n] + 1))
         ELSE IF op = "Then" THEN
             IF n = 0 THEN ErrorOn("ThenWithoutIfStatement", tokens[i])
             ELSE check_if_from(tokens, i + 1, SubSeq(else_statements, 1, n - 1))
         ELSE check_if_from(tokens, i + 1, else_statements)

check_if_statements(tokens) == check_if_from(tokens, 1, <<>>)

(***************************************************************************)
(* Program::parse.  parse_lines is the loop over the lines; on an error    *)
(* the tokens and labels collected so far stay in the Program.             *)
(***************************************************************************)
\* Mutant of parse_lines: label names are compared as written.
RECURSIVE parse_lines_CaseSensitive(_, _, _, _)
parse_lines_CaseSensitive(src, line_number, tokens, labels) ==
    IF line_number > Len(src)
    THEN [tokens |-> tokens, labels |-> labels, result |-> Ok]
    ELSE LET line == src[line_number] IN
         IF line = <<>> THEN parse_lines_CaseSensitive(src, line_number + 1, tokens, labels)
         ELSE LET part == line[1] IN
              IF starts_with(part, 35)
              THEN parse_lines_CaseSensitive(src, line_number + 1, tokens, labels)
              ELSE IF ends_with(part, 58)
              THEN LET name == SubSeq(part, 1, Len(part) - 1) IN
                   IF name \in DOMAIN labels
                   THEN [tokens |-> tokens, labels |-> labels,
                         result |-> ParseErrorAt("DuplicateLabel", part, line_number)]
                   ELSE parse_lines_CaseSensitive(src, line_number + 1, tokens,
                                                  (name :> Len(tokens)) @@ labels)
              ELSE LET r == parse_token(line, line_number) IN
                   IF r.kind # "Ok"
                   THEN [tokens |-> tokens, labels |-> labels, result |-> r]
                   ELSE parse_lines_CaseSensitive(src, line_number + 1,
                            Append(tokens, AnnotatedToken(r.token, line_number)),
                            labels)

RECURSIVE parse_lines(_, _, _, _)
parse_lines(src, line_number, tokens, labels) ==
    IF line_number > Len(src)
    THEN [tokens |-> tokens, labels |-> labels, result |-> Ok]
    ELSE LET line == src[line_number] IN
         IF line = <<>> THEN parse_lines(src, line_number + 1, tokens, labels)
         ELSE LET part == line[1] IN
              IF starts_with(part, 35)
              THEN parse_lines(src, line_number + 1, tokens, labels)
              ELSE IF ends_with(part, 58)
              THEN LET name == to_uppercase(SubSeq(part, 1, Len(part) - 1)) IN
                   IF name \in DOMAIN labels
                   THEN [tokens |-> tokens, labels |-> labels,
                         result |-> ParseErrorAt("DuplicateLabel", part, line_number)]
                   ELSE parse_lines(src, line_number + 1, tokens,
                                    (name :> Len(tokens)) @@ labels)
              ELSE LET r == parse_token(line, line_number) IN
                   IF r.kind # "Ok"
                   THEN [tokens |-> tokens, labels |-> labels, result |-> r]
                   ELSE parse_lines(src, line_number + 1,
                            Append(tokens, AnnotatedToken(r.token, line_number)),
                            labels)

\* Mutant of parse: the calls are resolved before the conditionals are
\* checked.
parse_CallsFirst(src) ==
    LET p == parse_lines(src, 1, <<>>, <<>>) IN
    IF p.result.kind # "Ok" THEN p
    ELSE LET calls == check_calls(p.tokens, p.labels) IN
         IF calls.kind # "Ok" THEN [p EXCEPT !.result = calls]
         ELSE [p EXCEPT !.result = check_if_statements(p.tokens)]

parse(src) ==
    LET p == parse_lines(src, 1, <<>>, <<>>) IN
    IF p.result.kind # "Ok" THEN p
    ELSE LET ifs == check_if_statements(p.tokens) IN
         IF ifs.kind # "Ok" THEN [p EXCEPT !.result = ifs]
         ELSE [p EXCEPT !.result = check_calls(p.tokens, p.labels)]

(***************************************************************************)
(* Program::step.  p is the Program: [tokens, labels, pc, call_stack,      *)
(* stack, stack_size, halted].  Each instruction's arm of the match is an  *)
(* operator from p and the current token t to the outcome of the step: the *)
(* fields step() may write, what it printed, and what it returned.         *)
(***************************************************************************)
Outcome(p, result) ==
    [pc |-> p.pc, call_stack |-> p.call_stack, stack |-> p.stack,
     halted |-> p.halted, printed |-> <<>>, result |-> result]

\* Vec::pop called k times in a row: what is left of the stack
pop_n(stack, k) ==
    IF Len(stack) <= k THEN <<>> ELSE SubSeq(stack, 1, Len(stack) - k)

\* Mutant of step_Push: the capacity test is off by one.
step_Push_OffByOne(p, t) ==
    IF Len(p.stack) <= p.stack_size
    THEN [Outcome(p, Ok) EXCEPT !.pc = p.pc + 1,
                                !.stack = Append(p.stack, t.token.value)]
    ELSE Outcome(p, ErrorOn("StackOverflow", t))

step_Push(p, t) ==
    IF Len(p.stack) < p.stack_size
    THEN [Outcome(p, Ok) EXCEPT !.pc = p.pc + 1,
                                !.stack = Append(p.stack, t.token.value)]
    ELSE Outcome(p, ErrorOn("StackOverflow", t))

step_Pop(p, t) ==
    IF Len(p.stack) = 0
    THEN Outcome(p, ErrorOn("StackUnderflow", t))
    ELSE [Outcome(p, Ok) EXCEPT !.stack = pop_n(p.stack, 1), !.pc = p.pc + 1]

\* Mutant of step_Dup: a full stack is refused.
step_Dup_Checked(p, t) ==
    IF Len(p.stack) = 0
    THEN Outcome(p, ErrorOn("StackUnderflow", t))
    ELSE IF Len(p.stack) >= p.stack_size
    THEN Outcome(p, ErrorOn("StackOverflow", t))
    ELSE [Outcome(p, Ok) EXCEPT !.stack = Append(p.stack, p.stack[Len(p.stack)]),
                                !.pc = p.pc + 1]

step_Dup(p, t) ==
    IF Len(p.stack) = 0
    THEN Outcome(p, ErrorOn("StackUnderflow", t))
    ELSE [Outcome(p, Ok) EXCEPT !.stack = Append(p.stack, p.stack[Len(p.stack)]),
                                !.pc = p.pc + 1]

\* (self.stack.pop(), self.stack.pop()) is evaluated before it is matched:
\* both pops have happened when the underflow arm is taken.
step_Swap(p, t) ==
    LET n == Len(p.stack) IN
    IF n < 2
    THEN [Outcome(p, ErrorOn("StackUnderflow", t)) EXCEPT !.stack = pop_n(p.stack, 2)]
    ELSE LET top == p.stack[n]
             bottom == p.stack[n - 1]
         IN [Outcome(p, Ok) EXCEPT
                !.stack = Append(Append(pop_n(p.stack, 2), top), bottom),
                !.pc = p.pc + 1]

\* Mutant of step_Over: the two elements are popped to be looked at, as Swap
\* does, and are lost when there are fewer than two.
step_Over_Popping(p, t) ==
    LET n == Len(p.stack) IN
    IF n < 2
    THEN [Outcome(p, ErrorOn("StackUnderflow", t)) EXCEPT !.stack = pop_n(p.stack, 2)]
    ELSE [Outcome(p, Ok) EXCEPT !.stack = Append(p.stack, p.stack[n - 1]),
                                !.pc = p.pc + 1]

step_Over(p, t) ==
    LET n == Len(p.stack) IN
    IF n < 2
    THEN Outcome(p, ErrorOn("StackUnderflow", t))
    ELSE [Outcome(p, Ok) EXCEPT !.stack = Append(p.stack, p.stack[n - 1]),
                                !.pc = p.pc + 1]

step_Rotate(p, t) ==
    LET n == Len(p.stack) IN
    IF n < 3
    THEN [Outcome(p, ErrorOn("StackUnderflow", t)) EXCEPT !.stack = pop_n(p.stack, 3)]
    ELSE LET top == p.stack[n]
             middle == p.stack[n - 1]
             bottom == p.stack[n - 2]
         IN [Outcome(p, Ok) EXCEPT
                !.stack = pop_n(p.stack, 3) \o <<middle, top, bottom>>,
                !.pc = p.pc + 1]

\* self.stack.len() - 1 - index on usize, two subtractions from the left:
\* with overflow checks (the debug profile) a subtraction below zero panics,
\* without them (the release profile) it wraps modulo 2^64.  Vec::get then
\* bounds-checks the index.
step_Pick(p, t, overflow_checks) ==
    LET len == usize(Len(p.stack))
        index == t.token.index
        len_1 == usize_wrapping_sub(len, usize(1))
        at == usize_wrapping_sub(len_1, index)
    IN
    IF overflow_checks /\ (usize_lt(len, usize(1)) \/ usize_lt(len_1, index))
    THEN Outcome(p, ErrorOn("Panic", t))
    ELSE IF ~usize_lt(at, len)
    THEN Outcome(p, ErrorOn("StackUnderflow", t))
    ELSE [Outcome(p, Ok) EXCEPT
             !.stack = Append(p.stack, p.stack[usize_small(at) + 1]),
             !.pc = p.pc + 1]

\* Mutant of step_BinOp: the sum stops at the largest byte instead of
\* wrapping.
step_BinOp_Saturating(p, t) ==
    LET n == Len(p.stack) IN
    IF n < 2
    THEN [Outcome(p, ErrorOn("StackUnderflow", t)) EXCEPT !.stack = pop_n(p.stack, 2)]
    ELSE LET top == p.stack[n]
             bottom == p.stack[n - 1]
             result == IF t.token.bin_op = "Add"
                       THEN (IF top + bottom > U8Max THEN U8Max ELSE top + bottom)
                       ELSE (bottom - top + U8Max + 1) % (U8Max + 1)
         IN [Outcome(p, Ok) EXCEPT !.stack = Append(pop_n(p.stack, 2), result),
                                   !.pc = p.pc + 1]

\* Mutant of step_BinOp: the lower value is subtracted from the top one.
step_BinOp_SubReversed(p, t) ==
    LET n == Len(p.stack) IN
    IF n < 2
    THEN [Outcome(p, ErrorOn("StackUnderflow", t)) EXCEPT !.stack = pop_n(p.stack, 2)]
    ELSE LET top == p.stack[n]
             bottom == p.stack[n - 1]
             result == IF t.token.bin_op = "Add"
                       THEN (top + bottom) % (U8Max + 1)
                       ELSE (top - bottom + U8Max + 1) % (U8Max + 1)
         IN [Outcome(p, Ok) EXCEPT !.stack = Append(pop_n(p.stack, 2), result),
                                   !.pc = p.pc + 1]

step_BinOp(p, t) ==
    LET n == Len(p.stack) IN
    IF n < 2
    THEN [Outcome(p, ErrorOn("StackUnderflow", t)) EXCEPT !.stack = pop_n(p.stack, 2)]
    ELSE LET top == p.stack[n]
             bottom == p.stack[n - 1]
             result == IF t.token.bin_op = "Add"
                       THEN (top + bottom) % (U8Max + 1)
                       ELSE (bottom - top + U8Max + 1) % (U8Max + 1)
         IN [Outcome(p, Ok) EXCEPT !.stack = Append(pop_n(p.stack, 2), result),
                                   !.pc = p.pc + 1]

\* format!("{}", n) for a u8: its decimal digits
RECURSIVE to_decimal(_)
to_decimal(n) ==
    IF n < 10 THEN <<48 + n>> ELSE Append(to_decimal(n \div 10), 48 + (n % 10))

\* Mutant of step_Print: PRINT_CHAR writes the number as PRINT_BYTE does.
step_Print_AlwaysDecimal(p, t) ==
    LET n == Len(p.stack) IN
    IF n = 0
    THEN Outcome(p, ErrorOn("StackUnderflow", t))
    ELSE LET top == p.stack[n] IN
         [Outcome(p, Ok) EXCEPT
             !.stack = pop_n(p.stack, 1),
             !.printed = <<to_decimal(top)>>,
             !.pc = p.pc + 1]

\* One print!() call writes one item: the digits of the byte, or the one
\* character whose code point is the byte.
step_Print(p, t) ==
    LET n == Len(p.stack) IN
    IF n = 0
    THEN Outcome(p, ErrorOn("StackUnderflow", t))
    ELSE LET top == p.stack[n] IN
         [Outcome(p, Ok) EXCEPT
             !.stack = pop_n(p.stack, 1),
             !.printed = IF t.token.op = "PrintByte" THEN <<to_decimal(top)>>
                                                     ELSE <<(<<top>>)>>,
             !.pc = p.pc + 1]

\* Mutant of scan_if: an Else stops the scan at any depth.
RECURSIVE scan_if_AnyElse(_, _, _, _, _)
scan_if_AnyElse(tokens, pc, depth, found_else, found_then) ==
    IF (depth = 0 /\ found_then) \/ found_else
    THEN [pc |-> pc + 1, closed |-> TRUE]
    ELSE IF pc + 1 >= Len(tokens)
    THEN [pc |-> pc + 1, closed |-> FALSE]
    ELSE LET op == tokens[pc + 2].token.op IN
         scan_if_AnyElse(tokens, pc + 1,
                 IF op = "If" THEN depth + 1
                 ELSE IF op = "Then" THEN depth - 1 ELSE depth,
                 op = "Else", op = "Then")

\* The while loop of the If arm; self.pc is the loop variable, so the pc it
\* stopped at stays in the Program when the scan runs off the end.
RECURSIVE scan_if(_, _, _, _, _)
scan_if(tokens, pc, depth, found_else, found_then) ==
    IF (depth = 0 /\ found_then) \/ (depth = 1 /\ found_else)
    THEN [pc |-> pc + 1, closed |-> TRUE]
    ELSE IF pc + 1 >= Len(tokens)
    THEN [pc |-> pc + 1, closed |-> FALSE]
    ELSE LET op == tokens[pc + 2].token.op IN
         scan_if(tokens, pc + 1,
                 IF op = "If" THEN depth + 1
                 ELSE IF op = "Then" THEN depth - 1 ELSE depth,
                 op = "Else", op = "Then")

step_If(p, t) ==
    LET n == Len(p.stack) IN
    IF n = 0
    THEN Outcome(p, ErrorOn("StackUnderflow", t))
    ELSE IF p.stack[n] > 0
    THEN [Outcome(p, Ok) EXCEPT !.pc = p.pc + 1]
    ELSE LET s == scan_if(p.tokens, p.pc, 1, FALSE, FALSE) IN
         IF s.closed
         THEN [Outcome(p, Ok) EXCEPT !.pc = s.pc]
         ELSE [Outcome(p, ErrorOn("UnclosedIfStatement", t)) EXCEPT !.pc = s.pc]

\* Mutant of scan_else: a Then is seen but the depth is not lowered.
RECURSIVE scan_else_NoDecrement(_, _, _, _)
scan_else_NoDecrement(tokens, pc, depth, found_then) ==
    IF depth = 0 /\ found_then
    THEN [pc |-> pc, closed |-> TRUE]
    ELSE IF pc + 1 >= Len(tokens)
    THEN [pc |-> pc + 1, closed |-> FALSE]
    ELSE LET op == tokens[pc + 2].token.op IN
         scan_else_NoDecrement(tokens, pc + 1,
                               IF op = "If" THEN depth + 1 ELSE depth,
                               op = "Then")

\* Mutant of scan_else: nested Ifs are not counted, the first Then stops it.
RECURSIVE scan_else_FirstThen(_, _, _, _)
scan_else_FirstThen(tokens, pc, depth, found_then) ==
    IF found_then
    THEN [pc |-> pc, closed |-> TRUE]
    ELSE IF pc + 1 >= Len(tokens)
    THEN [pc |-> pc + 1, closed |-> FALSE]
    ELSE scan_else_FirstThen(tokens, pc + 1, depth,
                             tokens[pc + 2].token.op = "Then")

\* The while loop of the Else arm: no statement follows the loop.
RECURSIVE scan_else(_, _, _, _)
scan_else(tokens, pc, depth, found_then) ==
    IF depth = 0 /\ found_then
    THEN [pc |-> pc, closed |-> TRUE]
    ELSE IF pc + 1 >= Len(tokens)
    THEN [pc |-> pc + 1, closed |-> FALSE]
    ELSE LET op == tokens[pc + 2].token.op IN
         scan_else(tokens, pc + 1,
                   IF op = "If" THEN depth + 1
                   ELSE IF op = "Then" THEN depth - 1 ELSE depth,
                   op = "Then")

\* Mutant of step_Else: running off the end is not reported.
step_Else_NoError(p, t) ==
    [Outcome(p, Ok) EXCEPT !.pc = scan_else(p.tokens, p.pc, 1, FALSE).pc]

step_Else(p, t) ==
    LET s == scan_else(p.tokens, p.pc, 1, FALSE) IN
    IF s.closed
    THEN [Outcome(p, Ok) EXCEPT !.pc = s.pc]
    ELSE [Outcome(p, ErrorOn("UnclosedIfStatement", t)) EXCEPT !.pc = s.pc]

step_Then(p, t) == [Outcome(p, Ok) EXCEPT !.pc = p.pc + 1]

\* Mutant of step_Call: the return address is the call itself.
step_Call_ReturnToCall(p, t) ==
    IF t.token.label \notin DOMAIN p.labels
    THEN Outcome(p, ErrorOn("InvalidLabel", t))
    ELSE [Outcome(p, Ok) EXCEPT !.call_stack = Append(p.call_stack, p.pc),
                                !.pc = p.labels[t.token.label]]

\* Mutant of step_Call: the return address skips the instruction after the
\* call.
step_Call_SkipsOne(p, t) ==
    IF t.token.label \notin DOMAIN p.labels
    THEN Outcome(p, ErrorOn("InvalidLabel", t))
    ELSE [Outcome(p, Ok) EXCEPT !.call_stack = Append(p.call_stack, p.pc + 2),
                                !.pc = p.labels[t.token.label]]

step_Call(p, t) ==
    IF t.token.label \notin DOMAIN p.labels
    THEN Outcome(p, ErrorOn("InvalidLabel", t))
    ELSE [Outcome(p, Ok) EXCEPT !.call_stack = Append(p.call_stack, p.pc + 1),
                                !.pc = p.labels[t.token.label]]

\* Mutant of step_Return: the oldest return address is taken first.
step_Return_Oldest(p, t) ==
    LET n == Len(p.call_stack) IN
    IF n = 0
    THEN Outcome(p, ErrorOn("CallStackUnderflow", t))
    ELSE [Outcome(p, Ok) EXCEPT !.pc = p.call_stack[1],
                                !.call_stack = SubSeq(p.call_stack, 2, n)]

step_Return(p, t) ==
    LET n == Len(p.call_stack) IN
    IF n = 0
    THEN Outcome(p, ErrorOn("CallStackUnderflow", t))
    ELSE [Outcome(p, Ok) EXCEPT !.pc = p.call_stack[n],
                                !.call_stack = SubSeq(p.call_stack, 1, n - 1)]

\* Mutant of step_Halt: halting also moves past the Halt.
step_Halt_Advancing(p, t) == [Outcome(p, Ok) EXCEPT !.halted = TRUE, !.pc = p.pc + 1]

step_Halt(p, t) == [Outcome(p, Ok) EXCEPT !.halted = TRUE]

\* match &current_token.token: one arm per instruction
step_match(p, t, overflow_checks) ==
    LET op == t.token.op
    IN CASE op = "Push" -> step_Push(p, t)
         [] op = "Pop" -> step_Pop(p, t)
         [] op = "Dup" -> step_Dup(p, t)
         [] op = "Swap" -> step_Swap(p, t)
         [] op = "Over" -> step_Over(p, t)
         [] op = "Rotate" -> step_Rotate(p, t)
         [] op = "Pick" -> step_Pick(p, t, overflow_checks)
         [] op = "BinOp" -> step_BinOp(p, t)
         [] op \in {"PrintByte", "PrintChar"} -> step_Print(p, t)
         [] op = "If" -> step_If(p, t)
         [] op = "Else" -> step_Else(p, t)
         [] op = "Then" -> step_Then(p, t)
         [] op = "Call" -> step_Call(p, t)
         [] op = "Return" -> step_Return(p, t)
         [] op = "Halt" -> step_Halt(p, t)

\* Mutant of step: running off the end of the program halts it.
step_EndHalts(p, overflow_checks) ==
    IF p.halted
    THEN Outcome(p, Ok)
    ELSE IF p.pc >= Len(p.tokens)
         THEN [Outcome(p, Ok) EXCEPT !.halted = TRUE]
         ELSE step_match(p, p.tokens[p.pc + 1], overflow_checks)

step(p, overflow_checks) ==
    IF p.pc >= Len(p.tokens) \/ p.halted
    THEN Outcome(p, Ok)
    ELSE step_match(p, p.tokens[p.pc + 1], overflow_checks)

(***************************************************************************)
(* State.                                                                  *)
(*   lines, stack_size   the arguments of Program::new                     *)
(*   overflow_checks     the build profile: TRUE when integer overflow     *)
(*                       panics (debug), FALSE when it wraps (release)     *)
(*   tokens, labels, pc, call_stack, stack, halted   fields of Program     *)
(*   output              the items written to stdout, in order             *)
(*   result              what the last call of parse() or step() returned  *)
(*   phase               "new" after Program::new, "parsed" / "rejected"   *)
(*                       after parse(), "stepped" after a step(),          *)
(*                       "panicked" when a step() aborted the process      *)
(*   before              history: the fields as they were when the last    *)
(*                       step() was called                                 *)
(*   verbose, step_mode  config.verbose and config.step of the driver;  *)
(*                       FALSE when parse() and step() are called       *)
(*                       directly.  The driver adds the phases "waiting" *)
(*                       (step mode: blocked in read_line), "exited"     *)
(*                       (process::exit(1) after an error) and           *)
(*                       "returned" (run() came back after the loop)     *)
(***************************************************************************)
VARIABLES lines, stack_size, overflow_checks, tokens, labels, pc, call_stack,
          stack, halted, output, result, phase, before, verbose, step_mode

vars == <<lines, stack_size, overflow_checks, tokens, labels, pc, call_stack,
          stack, halted, output, result, phase, before, verbose, step_mode>>

Program ==
    [tokens |-> tokens, labels |-> labels, pc |-> pc, call_stack |-> call_stack,
     stack |-> stack, stack_size |-> stack_size, halted |-> halted]

Snapshot ==
    [pc |-> pc, call_stack |-> call_stack, stack |-> stack, halted |-> halted,
     output |-> output]

(***************************************************************************)
(* Source texts.                                                           *)
(***************************************************************************)
L_PUSH(n) == <<W_PUSH, to_decimal(n)>>
L_PICK(n) == <<W_PICK, to_decimal(n)>>
\* Arguments of PICK wider than any stack: 1073741824, 4294967295,
\* 4294967296, then 18446744073709551615, the largest index the parser
\* accepts, and 18446744073709551616, which it rejects.
WideArguments ==
    {<<49, 48, 55, 51, 55, 52, 49, 56, 50, 52>>,
     <<52, 50, 57, 52, 57, 54, 55, 50, 57, 53>>,
     <<52, 50, 57, 52, 57, 54, 55, 50, 57, 54>>,
     <<49, 56, 52, 52, 54, 55, 52, 52, 48, 55, 51, 55, 48, 57, 53, 53, 49, 54,
       49, 53>>,
     <<49, 56, 52, 52, 54, 55, 52, 52, 48, 55, 51, 55, 48, 57, 53, 53, 49, 54,
       49, 54>>}
L_FOO_DECL == <<(<<70, 79, 79, 58>>)>>          \* FOO:
L_FOO == <<(<<70, 79, 79>>)>>                   \* FOO
L_CALL_FOO == <<(<<67, 65, 76, 76>>), (<<70, 79, 79>>)>>   \* CALL FOO

\* the scenarios of the specification's section 8
Src_Add == <<L_PUSH(5), L_PUSH(3), <<W_ADD>>, <<W_PRINT_BYTE>>, <<W_HALT>>>>
Src_IfElse == <<L_PUSH(0), <<W_IF>>, L_PUSH(1), <<W_ELSE>>, L_PUSH(2), <<W_THEN>>,
                <<W_PRINT_BYTE>>, <<W_HALT>>>>
Src_CallFoo == <<L_CALL_FOO, <<W_PRINT_BYTE>>, <<W_HALT>>, L_FOO_DECL, L_PUSH(9),
                 <<W_RETURN>>>>
\* the same subroutine called the way the parser reads calls: by its bare name
Src_Foo == <<L_FOO, <<W_PRINT_BYTE>>, <<W_HALT>>, L_FOO_DECL, L_PUSH(9),
             <<W_RETURN>>>>
\* every instruction once, in lower case, with a comment and a blank line
Src_All == <<(<<(<<35>>), (<<97>>)>>), <<>>,
             <<to_lowercase(W_PUSH), (<<43, 55>>)>>, <<to_lowercase(W_DUP)>>,
             <<to_lowercase(W_OVER)>>, <<to_lowercase(W_ROTATE)>>,
             <<to_lowercase(W_SWAP)>>, <<to_lowercase(W_SUB)>>,
             <<to_lowercase(W_PICK), (<<49>>)>>, <<to_lowercase(W_PRINT_CHAR)>>,
             <<to_lowercase(W_IF)>>, <<to_lowercase(W_POP)>>,
             <<to_lowercase(W_THEN)>>, <<to_lowercase(W_HALT)>>>>

\* nested subroutines: a: calls b:
Src_Nested == <<(<<(<<97>>)>>), <<W_HALT>>, (<<(<<97, 58>>)>>), (<<(<<98>>)>>),
                <<W_RETURN>>, (<<(<<98, 58>>)>>), L_PUSH(1), <<W_PRINT_BYTE>>,
                <<W_RETURN>>>>
\* a countdown: loop: is re-entered by a call while the counter is not 0
Src_Loop == <<L_PUSH(2), (<<(<<108, 111, 111, 112, 58>>)>>), <<W_DUP>>,
              <<W_PRINT_BYTE>>, L_PUSH(1), <<W_SUB>>, <<W_IF>>,
              (<<(<<76, 79, 79, 80>>)>>), <<W_THEN>>, <<W_HALT>>>>

\* a byte of three digits printed as a number, then a byte printed as a
\* character
Src_Print == <<L_PUSH(255), <<W_PRINT_BYTE>>, L_PUSH(65), <<W_PRINT_CHAR>>,
               <<W_HALT>>>>

Scenarios == {Src_Add, Src_IfElse, Src_CallFoo, Src_Foo, Src_All, Src_Nested,
              Src_Loop, Src_Print}

\* every sequence of at most n lines drawn from the set S
LineSeqs(S, n) == UNION {[1..k -> S] : k \in 0..n}

StackLines ==
    {L_PUSH(1), L_PUSH(2), <<W_POP>>, <<W_DUP>>, <<W_SWAP>>, <<W_OVER>>,
     <<W_ROTATE>>, L_PICK(0), L_PICK(1), <<W_ADD>>, <<W_SUB>>,
     <<W_PRINT_BYTE>>, <<W_PRINT_CHAR>>, <<W_IF>>}

\* PICK with a wide argument on a stack of at most two values
WidePickSources ==
    {pushes \o <<(<<W_PICK, a>>)>> :
        pushes \in LineSeqs({L_PUSH(7)}, MaxStackSize), a \in WideArguments}

CtlLines == {L_PUSH(0), L_PUSH(1), <<W_IF>>, <<W_ELSE>>, <<W_THEN>>}

CallLines ==
    {<<(<<102, 58>>)>>,           \* f:
     <<(<<70, 58>>)>>,            \* F:
     <<(<<103, 58>>)>>,           \* g:
     <<(<<102>>)>>,               \* f
     <<(<<71>>)>>,                \* G
     <<W_RETURN>>, <<W_HALT>>, <<>>,
     <<W_PUSH>>,                  \* PUSH without its argument
     <<W_ELSE>>}                  \* ELSE without an IF

\* labels and calls whose case mapping leaves ASCII
AccentedLines ==
    {<<(<<233, 58>>)>>,          \* e acute, lower case, declared
     <<(<<201, 58>>)>>,          \* E acute, upper case, declared
     <<(<<201>>)>>,              \* E acute, upper case, called
     <<(<<223, 58>>)>>,          \* sharp s declared: its upper case is SS
     <<(<<83, 83>>)>>}           \* SS called

FlowLines ==
    {L_PUSH(0), L_PUSH(1), <<W_IF>>, <<W_ELSE>>, <<W_THEN>>,
     <<(<<102, 58>>)>>,           \* f:
     <<(<<70>>)>>,                \* F
     <<(<<71>>)>>,                \* G, which no line declares
     <<W_RETURN>>}

\* PUSH a / PUSH b / ADD and PUSH a / PUSH b / SUB for every pair of bytes,
\* and the same below one more element for the bytes where the sum or the
\* difference wraps or does not
Bytes == 0..U8Max
EdgeBytes == {0, 1, 3, 10, U8Max}
ArithSources ==
    {<<L_PUSH(a), L_PUSH(b), <<op>>>> : a \in Bytes, b \in Bytes, op \in {W_ADD, W_SUB}}
    \cup {<<L_PUSH(7), L_PUSH(a), L_PUSH(b), <<op>>>> :
              a \in EdgeBytes, b \in EdgeBytes, op \in {W_ADD, W_SUB}}

\* Balanced conditionals entered sideways: the label f: stands at any place
\* of a source that calls F, so the call lands on an If, on an Else, inside
\* a branch or on a RETURN that goes back to an If.
InsertAt(src, k, line) == SubSeq(src, 1, k) \o <<line>> \o SubSeq(src, k + 1, Len(src))
BranchSkeletons ==
    {<<L_PUSH(c), <<W_IF>>, <<W_ELSE>>, <<W_IF>>, <<W_THEN>>, <<W_THEN>>,
       <<(<<70>>)>>>> : c \in {0, 1}}
    \cup {<<L_PUSH(c), <<(<<70>>)>>, <<W_IF>>, <<W_ELSE>>, <<W_THEN>>, <<W_HALT>>,
            <<W_RETURN>>>> : c \in {0, 1}}
BranchSources ==
    {InsertAt(src, k, <<(<<102, 58>>)>>) : src \in BranchSkeletons, k \in 0..7}

(***************************************************************************)
(* Program::new, then the operations parse() and step().                   *)
(***************************************************************************)
Configured(src, size, profiles, modes) ==
    /\ verbose \in {m.verbose : m \in modes}
    /\ step_mode \in {m.step : m \in {n \in modes : n.verbose = verbose}}
    /\ lines = src
    /\ stack_size = size
    /\ overflow_checks \in profiles
    /\ tokens = <<>>
    /\ labels = <<>>
    /\ pc = 0
    /\ call_stack = <<>>
    /\ stack = <<>>
    /\ halted = FALSE
    /\ output = <<>>
    /\ result = [kind |-> "None"]
    /\ phase = "new"
    /\ before = [pc |-> 0, call_stack |-> <<>>, stack |-> <<>>, halted |-> FALSE,
                 output |-> <<>>]

New(src, size, profiles) ==
    Configured(src, size, profiles, {[verbose |-> FALSE, step |-> FALSE]})

InitScenario == \E src \in Scenarios : New(src, DefaultStackSize, BOOLEAN)

InitStack ==
    \/ InitScenario
    \/ \E src \in LineSeqs(StackLines, MaxStackLines), size \in 1..MaxStackSize :
          New(src, size, BOOLEAN)
    \/ \E src \in WidePickSources : New(src, MaxStackSize, BOOLEAN)

\* The generated programs of conditionals and of calls hold no Pick, the one
\* instruction the build profile matters to: they are run under one profile.
InitCtl ==
    \/ InitScenario
    \/ \E src \in LineSeqs(CtlLines, MaxCtlLines) :
          New(src, MaxStackSize, {FALSE})

InitCall ==
    \/ InitScenario
    \/ \E src \in LineSeqs(CallLines, MaxCallLines) :
          New(src, MaxStackSize, {FALSE})
    \/ \E src \in LineSeqs(AccentedLines, MaxCallLines) :
          New(src, MaxStackSize, {FALSE})

InitFlow ==
    \/ InitScenario
    \/ \E src \in LineSeqs(FlowLines, MaxFlowLines) :
          New(src, MaxStackSize, {FALSE})

\* the stack has room for exactly the values the program pushes
InitArith ==
    \/ InitScenario
    \/ \E src \in ArithSources : New(src, Len(src) - 1, {FALSE})

InitBranch ==
    \/ InitFlow
    \/ \E src \in BranchSources : New(src, MaxStackSize, {FALSE})

Init == InitScenario

Parse ==
    /\ phase = "new"
    /\ LET r == parse(lines) IN
       /\ tokens' = r.tokens
       /\ labels' = r.labels
       /\ result' = r.result
       /\ phase' = IF r.result.kind = "Ok" THEN "parsed" ELSE "rejected"
    /\ UNCHANGED <<lines, stack_size, overflow_checks, pc, call_stack, stack,
                   halted, output, before, verbose, step_mode>>

Step ==
    /\ phase \in {"parsed", "stepped"}
    /\ LET o == step(Program, overflow_checks) IN
       /\ Len(o.stack) <= StackBound
       /\ Len(o.call_stack) <= MaxCallDepth
       /\ Len(output) + Len(o.printed) <= MaxOutput
       /\ pc' = o.pc
       /\ call_stack' = o.call_stack
       /\ stack' = o.stack
       /\ halted' = o.halted
       /\ output' = output \o o.printed
       /\ result' = o.result
       /\ phase' = IF o.result.kind = "Panic" THEN "panicked" ELSE "stepped"
    /\ before' = Snapshot
    /\ UNCHANGED <<lines, stack_size, overflow_checks, tokens, labels, verbose,
                   step_mode>>

Next == Parse \/ Step

Spec == Init /\ [][Next]_vars
SpecStack == InitStack /\ [][Next]_vars
SpecCtl == InitCtl /\ [][Next]_vars
SpecCall == InitCall /\ [][Next]_vars
SpecFlow == InitFlow /\ [][Next]_vars
SpecArith == InitArith /\ [][Next]_vars
SpecBranch == InitBranch /\ [][Next]_vars

(***************************************************************************)
(* The driver: run() of main.rs.  What it writes to stdout with println!   *)
(* is one item of output per call, ending in a line feed; eprintln! goes   *)
(* to stderr, which is not part of the state.  In step mode every          *)
(* iteration also waits for a line of input, which is taken to arrive.     *)
(***************************************************************************)
\* format!("{}", n) for a usize in limbs: the first limb that is not 0 as it
\* is, every limb after it in four digits
limb_digits(v) ==
    <<48 + (v \div 1000), 48 + ((v \div 100) % 10), 48 + ((v \div 10) % 10),
      48 + (v % 10)>>

RECURSIVE padded_limbs(_, _)
padded_limbs(a, i) ==
    IF i > Len(a) THEN <<>> ELSE limb_digits(a[i]) \o padded_limbs(a, i + 1)

RECURSIVE usize_to_decimal_from(_, _)
usize_to_decimal_from(a, i) ==
    IF i = Len(a) THEN to_decimal(a[i])
    ELSE IF a[i] = 0 THEN usize_to_decimal_from(a, i + 1)
    ELSE to_decimal(a[i]) \o padded_limbs(a, i + 1)

usize_to_decimal(a) == usize_to_decimal_from(a, 1)

\* Token::to_string
to_string(token) ==
    CASE token.op = "Push" -> <<112, 117, 115, 104, 32>> \o to_decimal(token.value)
      [] token.op = "Pop" -> <<112, 111, 112>>
      [] token.op = "Dup" -> <<100, 117, 112>>
      [] token.op = "Swap" -> <<115, 119, 97, 112>>
      [] token.op = "Rotate" -> <<114, 111, 116, 97, 116, 101>>
      [] token.op = "Over" -> <<111, 118, 101, 114>>
      [] token.op = "Pick" -> <<112, 105, 99, 107, 32>> \o usize_to_decimal(token.index)
      [] token.op = "BinOp" -> IF token.bin_op = "Add" THEN <<97, 100, 100>>
                                                       ELSE <<115, 117, 98>>
      [] token.op = "PrintByte" -> <<112, 114, 105, 110, 116, 95, 98, 121, 116, 101>>
      [] token.op = "PrintChar" -> <<112, 114, 105, 110, 116, 95, 99, 104, 97, 114>>
      [] token.op = "If" -> <<105, 102>>
      [] token.op = "Else" -> <<101, 108, 115, 101>>
      [] token.op = "Then" -> <<116, 104, 101, 110>>
      [] token.op = "Call" -> to_lowercase(token.label)
      [] token.op = "Return" -> <<114, 101, 116, 117, 114, 110>>
      [] token.op = "Halt" -> <<104, 97, 108, 116>>

\* format!("{:?}", stack) for a Vec<u8>: [1, 2, 3]
RECURSIVE debug_items(_)
debug_items(v) ==
    IF v = <<>> THEN <<>>
    ELSE IF Len(v) = 1 THEN to_decimal(v[1])
    ELSE to_decimal(v[1]) \o <<44, 32>> \o debug_items(Tail(v))

debug_stack(v) == <<91>> \o debug_items(v) \o <<93>>

\* println!("Stack: {:?}", program.stack); println!("Line {}: {}", ...)
trace_lines(p) ==
    LET current_token == p.tokens[p.pc + 1] IN
    <<(<<83, 116, 97, 99, 107, 58, 32>> \o debug_stack(p.stack) \o <<10>>),
      (<<76, 105, 110, 101, 32>> \o to_decimal(current_token.line_number)
           \o <<58, 32>> \o to_string(current_token.token) \o <<10>>)>>

\* println!("Program halted."); println!("Final stack: {:?}", program.stack)
final_lines(p) ==
    <<(<<80, 114, 111, 103, 114, 97, 109, 32, 104, 97, 108, 116, 101, 100, 46, 10>>),
      (<<70, 105, 110, 97, 108, 32, 115, 116, 97, 99, 107, 58, 32>>
           \o debug_stack(p.stack) \o <<10>>)>>

\* config.verbose || config.step: the driver traces every iteration.
Tracing == verbose \/ step_mode

\* program.step() as the loop calls it, and what the driver does with its
\* result: a runtime error ends the process with exit(1).  The model follows
\* the run while call_stack and stack stay within the declared bounds.
RunStep(traced) ==
    LET o == step(Program, overflow_checks)
    IN /\ Len(o.stack) <= StackBound
       /\ Len(o.call_stack) <= MaxCallDepth
       /\ pc' = o.pc
       /\ call_stack' = o.call_stack
       /\ stack' = o.stack
       /\ halted' = o.halted
       /\ output' = output \o traced \o o.printed
       /\ result' = o.result
       /\ phase' = IF o.result.kind = "Panic" THEN "panicked"
                   ELSE IF o.result.kind # "Ok" THEN "exited"
                   ELSE "stepped"

\* One iteration of while !program.halted when config.step is false.  With
\* config.verbose program.tokens[program.pc] is indexed first: past the last
\* instruction that is an index out of bounds, which panics before anything
\* is written and before step() is called.
Iterate ==
    /\ ~step_mode
    /\ phase \in {"parsed", "stepped"}
    /\ ~halted
    /\ IF verbose /\ pc >= Len(tokens)
       THEN /\ phase' = "panicked"
            /\ result' = [kind |-> "Panic"]
            /\ UNCHANGED <<pc, call_stack, stack, halted, output>>
       ELSE RunStep(IF verbose THEN trace_lines(Program) ELSE <<>>)
    /\ before' = Snapshot
    /\ UNCHANGED <<lines, stack_size, overflow_checks, tokens, labels, verbose,
                   step_mode>>

\* The first half of an iteration when config.step is true: tokens[pc] is
\* indexed (a panic past the last instruction), the two trace lines are
\* written and flushed, and the driver blocks in io::stdin().read_line().
Trace ==
    /\ step_mode
    /\ phase \in {"parsed", "stepped"}
    /\ ~halted
    /\ IF pc >= Len(tokens)
       THEN /\ phase' = "panicked"
            /\ result' = [kind |-> "Panic"]
            /\ UNCHANGED output
       ELSE /\ phase' = "waiting"
            /\ output' = output \o trace_lines(Program)
            /\ UNCHANGED result
    /\ before' = Snapshot
    /\ UNCHANGED <<lines, stack_size, overflow_checks, tokens, labels, pc,
                   call_stack, stack, halted, verbose, step_mode>>

\* read_line() comes back.  With a line, or at end of input, the iteration
\* goes on to program.step(); with an error (a line that is not UTF-8) the ?
\* operator returns it from run() and main ends the process with exit(1)
\* before step() is called.
ReadLine ==
    /\ phase = "waiting"
    /\ \E read \in {"Ok", "Err"} :
          IF read = "Err"
          THEN /\ phase' = "exited"
               /\ result' = [kind |-> "IoError"]
               /\ UNCHANGED <<pc, call_stack, stack, halted, output>>
          ELSE RunStep(<<>>)
    /\ before' = Snapshot
    /\ UNCHANGED <<lines, stack_size, overflow_checks, tokens, labels, verbose,
                   step_mode>>

\* The loop condition is false: the closing lines in verbose or step mode,
\* then Ok(()).
Finish ==
    /\ phase \in {"parsed", "stepped"}
    /\ halted
    /\ phase' = "returned"
    /\ output' = output \o (IF Tracing THEN final_lines(Program) ELSE <<>>)
    /\ result' = Ok
    /\ before' = Snapshot
    /\ UNCHANGED <<lines, stack_size, overflow_checks, tokens, labels, pc,
                   call_stack, stack, halted, verbose, step_mode>>

DriverLines ==
    {L_PUSH(0), L_PUSH(1), <<W_IF>>, <<W_ELSE>>, <<W_THEN>>, <<W_PRINT_BYTE>>,
     <<W_HALT>>,
     <<(<<102, 58>>)>>,           \* f:
     <<(<<70>>)>>}                \* F

\* The flags of the command line: -v and -s, each given or not.
Modes == [verbose : BOOLEAN, step : BOOLEAN]

InitDriver ==
    \/ \E src \in Scenarios : Configured(src, DefaultStackSize, {FALSE}, Modes)
    \/ \E src \in LineSeqs(DriverLines, MaxDriverLines) :
          Configured(src, MaxStackSize, {FALSE}, Modes)

NextDriver == Parse \/ Iterate \/ Trace \/ ReadLine \/ Finish

SpecDriver == InitDriver /\ [][NextDriver]_vars

(***************************************************************************)
(* Vocabulary of the properties.                                           *)
(***************************************************************************)
\* the last operation was a step() that executed an instruction
Executed ==
    /\ phase \in {"stepped", "panicked"}
    /\ before.pc < Len(tokens)
    /\ ~before.halted

ExecutedToken == tokens[before.pc + 1]
ExecutedOp == ExecutedToken.token.op

\* the fields of Program are as they were before the last step()
ProgramUnchanged ==
    /\ stack = before.stack
    /\ pc = before.pc
    /\ call_stack = before.call_stack
    /\ halted = before.halted

\* the output as text: the items one after the other
RECURSIVE Text(_)
Text(items) == IF items = <<>> THEN <<>> ELSE Head(items) \o Text(Tail(items))

Min(S) == CHOOSE x \in S : \A y \in S : x <= y

\* instructions i..j (0-based, inclusive) with the given op
CountOp(op, i, j) == Cardinality({k \in i..j : tokens[k + 1].token.op = op})

\* nesting depth, relative to the If or Else at i, after the instruction at j:
\* 1 inside that conditional, 0 once its Then has been passed
DepthAfter(i, j) == 1 + CountOp("If", i + 1, j) - CountOp("Then", i + 1, j)

\* the Then that closes the conditional the instruction at i stands in
ThenCandidates(i) == {j \in (i + 1)..(Len(tokens) - 1) : DepthAfter(i, j) = 0}

\* the Else of the If at i: at depth 1, before that If is closed
ElseCandidates(i) ==
    {j \in (i + 1)..(Len(tokens) - 1) :
        /\ tokens[j + 1].token.op = "Else"
        /\ DepthAfter(i, j) = 1
        /\ \A k \in (i + 1)..j : DepthAfter(i, k) >= 1}

(***************************************************************************)
(* C1.  The operand stack never holds more than stack_size elements.       *)
(* Refuted: Dup, Over and Pick push without looking at stack_size.         *)
(***************************************************************************)
C1_StackWithinCapacity == Len(stack) <= stack_size

\* a step of Swap, Add, Sub or Rotate found too few elements
C2_Short ==
    /\ Executed
    /\ \/ ExecutedOp \in {"Swap", "BinOp"} /\ Len(before.stack) < 2
       \/ ExecutedOp = "Rotate" /\ Len(before.stack) < 3

(***************************************************************************)
(* C2.  Swap, Add or Sub stepped on fewer than 2 elements, or Rotate on    *)
(* fewer than 3, returns StackUnderflow and leaves the stack, pc, call     *)
(* stack and halted flag as they were.                                     *)
(* Refuted: the pops happen before the underflow is noticed.               *)
(***************************************************************************)
C2_UnderflowLeavesState ==
    C2_Short => result = ErrorOn("StackUnderflow", ExecutedToken) /\ ProgramUnchanged

(***************************************************************************)
(* C3.  Original: the source CALL FOO / PRINT_BYTE / HALT / FOO: / PUSH 9  *)
(* / RETURN parses and, stepped until halted, prints 9.                    *)
(* Refuted: CALL is no mnemonic, so line 1 is a call of the label CALL.    *)
(***************************************************************************)
C3_CallFooRuns ==
    lines = Src_CallFoo =>
        /\ phase # "rejected"
        /\ halted => Text(output) = <<57>>

(***************************************************************************)
(* C3, amended.  That source is rejected by parse() with InvalidCall for   *)
(* CALL at line 1.  With the call written as the bare label name, FOO /    *)
(* PRINT_BYTE / HALT / FOO: / PUSH 9 / RETURN, parse() succeeds, no step   *)
(* fails, the call moves pc to the instruction after FOO: (index 3) with   *)
(* return address 1, Return resumes at PRINT_BYTE (index 1), and the       *)
(* halted program has printed exactly 9.                                   *)
(***************************************************************************)
C3_CallByName ==
    /\ (lines = Src_CallFoo /\ phase # "new") =>
           /\ phase = "rejected"
           /\ result = ParseErrorAt("InvalidCall", <<67, 65, 76, 76>>, 1)
    /\ lines = Src_Foo =>
           /\ phase \notin {"rejected", "panicked"}
           /\ phase = "stepped" => result = Ok
           /\ (Executed /\ ExecutedOp = "Call") =>
                  /\ pc = 3
                  /\ tokens[pc + 1].token = TokPush(9)
                  /\ call_stack = <<1>>
           /\ (Executed /\ ExecutedOp = "Return") =>
                  /\ pc = 1
                  /\ tokens[pc + 1].token = Tok("PrintByte")
                  /\ call_stack = <<>>
           /\ halted => (Text(output) = <<57>> /\ ExecutedOp = "Halt")

C3_Witness == lines = Src_Foo /\ halted /\ Text(output) = <<57>>

(***************************************************************************)
(* C4.  Pick(n) with n >= the stack length returns StackUnderflow with the *)
(* stack and pc unchanged, the index computation neither wrapping nor      *)
(* aborting; with n < length it pushes a copy of the element n below the   *)
(* top and advances pc.                                                    *)
(* Refuted: len - 1 - n is computed unguarded; it panics under overflow    *)
(* checks and wraps without them.                                          *)
(***************************************************************************)
C4_PickGuarded ==
    (Executed /\ ExecutedOp = "Pick") =>
        LET index == ExecutedToken.token.index
            len == Len(before.stack)
            n == IF usize_lt(index, usize(len)) THEN usize_small(index) ELSE len
        IN IF n >= len
           THEN /\ result = ErrorOn("StackUnderflow", ExecutedToken)
                /\ stack = before.stack
                /\ pc = before.pc
           ELSE /\ result = Ok
                /\ stack = Append(before.stack, before.stack[len - n])
                /\ pc = before.pc + 1

\* an Else was executed and the Then closing its conditional exists
C5_ElseClosed == Executed /\ ExecutedOp = "Else" /\ ThenCandidates(before.pc) # {}

(***************************************************************************)
(* C5.  Original: an executed Else whose matching Then exists leaves pc    *)
(* one past that Then, the stacks unchanged.                               *)
(* Refuted: the Else arm stops on the Then itself.                         *)
(***************************************************************************)
C5_ElseLandsPastThen ==
    C5_ElseClosed =>
        /\ pc = Min(ThenCandidates(before.pc)) + 1
        /\ stack = before.stack
        /\ call_stack = before.call_stack

(***************************************************************************)
(* C5, amended.  An executed Else whose matching Then exists (matching by  *)
(* nested If/Then depth, intervening Else ignored) returns Ok and leaves   *)
(* pc at the index of that Then, the operand stack and call stack          *)
(* unchanged; the Then is passed by the next step.                         *)
(***************************************************************************)
C5_ElseLandsOnThen ==
    C5_ElseClosed =>
        /\ result = Ok
        /\ pc = Min(ThenCandidates(before.pc))
        /\ tokens[pc + 1].token.op = "Then"
        /\ stack = before.stack
        /\ call_stack = before.call_stack

\* an Else was executed whose else-body holds a whole nested conditional
C5_Witness ==
    /\ C5_ElseClosed
    /\ CountOp("If", before.pc + 1, pc) >= 1
    /\ CountOp("Else", before.pc + 1, pc) >= 1

\* an If was stepped on a non-empty stack
C6_IfStepped == Executed /\ ExecutedOp = "If" /\ Len(before.stack) > 0

(***************************************************************************)
(* C6.  An If stepped on a non-empty stack only peeks the top.  With       *)
(* top > 0, pc advances by 1.  With top = 0, pc lands one past the Else of *)
(* this If (the first Else at nesting depth 1) when there is one, and      *)
(* otherwise one past this If's matching Then; conditionals nested in the  *)
(* skipped branch do not stop the scan.  The source PUSH 0 / IF / PUSH 1 / *)
(* ELSE / PUSH 2 / THEN / PRINT_BYTE / HALT runs without error and halts   *)
(* having printed 2.                                                       *)
(***************************************************************************)
C6_If ==
    /\ C6_IfStepped =>
         LET i == before.pc
             top == before.stack[Len(before.stack)]
         IN /\ stack = before.stack
            /\ call_stack = before.call_stack
            /\ top > 0 => (result = Ok /\ pc = i + 1)
            /\ (top = 0 /\ ElseCandidates(i) # {}) =>
                   (result = Ok /\ pc = Min(ElseCandidates(i)) + 1)
            /\ (top = 0 /\ ElseCandidates(i) = {} /\ ThenCandidates(i) # {}) =>
                   (result = Ok /\ pc = Min(ThenCandidates(i)) + 1)
    /\ lines = Src_IfElse =>
         /\ phase \notin {"rejected", "panicked"}
         /\ phase = "stepped" => result = Ok
         /\ halted => Text(output) = <<50>>

\* a false If skipped a then-branch holding a nested If ... Else ... Then
\* and stopped on its own Else
C6_Witness ==
    /\ C6_IfStepped
    /\ before.stack[Len(before.stack)] = 0
    /\ ElseCandidates(before.pc) # {}
    /\ pc = Min(ElseCandidates(before.pc)) + 1
    /\ CountOp("If", before.pc + 1, pc - 1) >= 1
    /\ CountOp("Else", before.pc + 1, pc - 1) >= 2
    /\ CountOp("Then", before.pc + 1, pc - 1) >= 1

\* every step so far executed a Push: the instructions before pc are all
\* Push, and the last step did not try another instruction at pc
C7_OnlyPushes ==
    /\ phase \in {"parsed", "stepped"}
    /\ pc <= Len(tokens)
    /\ \A i \in 1..pc : tokens[i].token.op = "Push"
    /\ Executed => ExecutedOp = "Push"

(***************************************************************************)
(* C7.  From the empty stack, k Push steps in a row with k <= stack_size   *)
(* all succeed and leave exactly the k pushed values, in order; a Push     *)
(* stepped with the stack at stack_size elements returns StackOverflow and *)
(* leaves the stack and pc unchanged.                                      *)
(***************************************************************************)
C7_Push ==
    /\ (C7_OnlyPushes /\ pc <= stack_size) =>
           stack = [i \in 1..pc |-> tokens[i].token.value]
    /\ (Executed /\ ExecutedOp = "Push") =>
           IF Len(before.stack) < stack_size
           THEN /\ result = Ok
                /\ stack = Append(before.stack, ExecutedToken.token.value)
                /\ pc = before.pc + 1
           ELSE /\ result = ErrorOn("StackOverflow", ExecutedToken)
                /\ stack = before.stack
                /\ pc = before.pc

\* the stack was filled by Push steps alone and one more Push was refused
C7_Witness ==
    /\ C7_OnlyPushes
    /\ Executed
    /\ ExecutedOp = "Push"
    /\ result.kind = "StackOverflow"
    /\ stack_size >= 2
    /\ pc = stack_size
    /\ Len(stack) = stack_size
    /\ stack[1] # stack[2]

\* a step of Pop, Dup, PrintByte, PrintChar, If or Over found too few elements
C8_Short ==
    /\ Executed
    /\ \/ /\ ExecutedOp \in {"Pop", "Dup", "PrintByte", "PrintChar", "If"}
          /\ Len(before.stack) = 0
       \/ ExecutedOp = "Over" /\ Len(before.stack) < 2

(***************************************************************************)
(* C8.  Pop, Dup, PrintByte, PrintChar or If stepped on the empty stack,   *)
(* or Over on fewer than 2 elements, returns StackUnderflow, prints        *)
(* nothing, and leaves the stack, pc, call stack and halted flag as they   *)
(* were.                                                                   *)
(***************************************************************************)
C8_CleanUnderflow ==
    C8_Short =>
        /\ result = ErrorOn("StackUnderflow", ExecutedToken)
        /\ output = before.output
        /\ ProgramUnchanged

\* Over was stepped on a stack of one element
C8_Witness ==
    /\ C8_Short
    /\ ExecutedOp = "Over"
    /\ Len(before.stack) = 1
    /\ result.kind = "StackUnderflow"

(***************************************************************************)
(* Vocabulary of the properties of parse(), read off the source text.      *)
(***************************************************************************)
Mnemonics ==
    {W_PUSH, W_POP, W_DUP, W_SWAP, W_OVER, W_ROTATE, W_PICK, W_ADD, W_SUB,
     W_PRINT_BYTE, W_PRINT_CHAR, W_IF, W_ELSE, W_THEN, W_RETURN, W_HALT}

IsLabelLine(line) ==
    line # <<>> /\ line[1][1] # 35 /\ line[1][Len(line[1])] = 58

IsInstructionLine(line) ==
    line # <<>> /\ line[1][1] # 35 /\ line[1][Len(line[1])] # 58

LabelName(line) == to_uppercase(SubSeq(line[1], 1, Len(line[1]) - 1))

DeclaredNames(src) == {LabelName(src[n]) : n \in {m \in 1..Len(src) : IsLabelLine(src[m])}}

\* the lines holding a call of a name that no line declares
UndefinedCallLines(src) ==
    {n \in 1..Len(src) :
        /\ IsInstructionLine(src[n])
        /\ to_uppercase(src[n][1]) \notin Mnemonics
        /\ to_uppercase(src[n][1]) \notin DeclaredNames(src)}

\* a fault parse() meets while it reads the lines: a label declared twice,
\* or a PUSH / PICK without a number it accepts
DuplicateLabelLines(src) ==
    {n \in 1..Len(src) :
        /\ IsLabelLine(src[n])
        /\ \E m \in 1..(n - 1) : IsLabelLine(src[m]) /\ LabelName(src[m]) = LabelName(src[n])}

BadArgumentLines(src) ==
    {n \in 1..Len(src) :
        /\ IsInstructionLine(src[n])
        /\ \/ /\ to_uppercase(src[n][1]) = W_PUSH
              /\ (Len(src[n]) < 2 \/ parse_unsigned(src[n][2], U8Max) < 0)
           \/ /\ to_uppercase(src[n][1]) = W_PICK
              /\ (Len(src[n]) < 2 \/ parse_usize(src[n][2]) = UsizeErr)}

StructuralErrors ==
    {"ElseWithoutIfStatement", "ThenWithoutIfStatement", "TooManyElseStatements"}

(***************************************************************************)
(* C9.  Original: a source holding a call of an undeclared name makes      *)
(* parse() return InvalidCall citing that line, and so no step() of a      *)
(* parsed program returns InvalidLabel.                                    *)
(* Refuted in its first half: parse() returns the first error it meets,    *)
(* and the duplicate-label, argument and structural checks come first.     *)
(***************************************************************************)
C9_UndefinedCallIsInvalidCall ==
    /\ (phase # "new" /\ UndefinedCallLines(lines) # {}) =>
           /\ result.kind = "InvalidCall"
           /\ result.line_number \in UndefinedCallLines(lines)
    /\ phase \in {"stepped", "panicked"} => result.kind # "InvalidLabel"

(***************************************************************************)
(* C9, amended.  A source holding a call of an undeclared name is never    *)
(* accepted by parse(): it returns InvalidCall with that name and the line *)
(* of the first such call, unless a check that comes earlier fails (the    *)
(* first duplicate label or bad PUSH / PICK argument met while reading the *)
(* lines, else the If/Else/Then structure), and then it returns that       *)
(* check's error.                                                          *)
(* So no step() of a parsed program returns InvalidLabel.                  *)
(***************************************************************************)
C9_UndefinedCallRejected ==
    /\ (phase # "new" /\ UndefinedCallLines(lines) # {}) =>
           /\ phase = "rejected"
           /\ IF DuplicateLabelLines(lines) \cup BadArgumentLines(lines) # {}
              THEN LET n == Min(DuplicateLabelLines(lines) \cup BadArgumentLines(lines))
                   IN /\ result.line_number = n
                      /\ result.kind \in IF n \in DuplicateLabelLines(lines)
                                         THEN {"DuplicateLabel"}
                                         ELSE {"MissingArgument", "InvalidArgument"}
              ELSE IF check_if_statements(tokens) # Ok
              THEN result.kind \in StructuralErrors
              ELSE LET n == Min(UndefinedCallLines(lines)) IN
                   result = ParseErrorAt("InvalidCall", to_uppercase(lines[n][1]), n)
    /\ phase \in {"stepped", "panicked"} => result.kind # "InvalidLabel"

\* parse() returned InvalidCall for an undeclared name written in lower case,
\* on a line that is not the first and not the last undefined call
C9_Witness ==
    /\ phase = "rejected"
    /\ result.kind = "InvalidCall"
    /\ Cardinality(UndefinedCallLines(lines)) >= 2
    /\ result.line_number = Min(UndefinedCallLines(lines))
    /\ result.line_number > 1
    /\ lines[result.line_number][1] # result.text

\* a false If or an Else was executed with nothing ahead to stop its scan
C10_Unclosed ==
    /\ Executed
    /\ \/ /\ ExecutedOp = "If"
          /\ Len(before.stack) > 0
          /\ before.stack[Len(before.stack)] = 0
          /\ ElseCandidates(before.pc) = {}
          /\ ThenCandidates(before.pc) = {}
       \/ /\ ExecutedOp = "Else"
          /\ ThenCandidates(before.pc) = {}

(***************************************************************************)
(* C10.  A false If (top = 0) with neither an Else at depth 1 nor a        *)
(* matching Then before the end of the instructions, or an executed Else   *)
(* with no matching Then before the end, makes step() return               *)
(* UnclosedIfStatement carrying that If or Else; parse() had accepted the  *)
(* program.                                                                *)
(***************************************************************************)
C10_UnclosedIf ==
    C10_Unclosed =>
        /\ result = ErrorOn("UnclosedIfStatement", ExecutedToken)
        /\ parse(lines).result = Ok

\* an Else ran off the end although conditionals nested after it are closed
C10_Witness ==
    /\ C10_Unclosed
    /\ ExecutedOp = "Else"
    /\ result.kind = "UnclosedIfStatement"
    /\ CountOp("Then", before.pc + 1, Len(tokens) - 1) >= 1

\* the last step() returned a runtime error
StepFailed == phase = "stepped" /\ result.kind # "Ok"

\* C11: halted is false after construction and after parse(); a step changes
\* it only by executing a Halt, which sets it and leaves pc, the operand stack
\* and the call stack as they were and returns success; a step from a halted
\* program leaves it halted; a step that returns an error leaves halted as it
\* was.
C11_HaltedMonotonic ==
    /\ phase \in {"new", "parsed", "rejected"} => ~halted
    /\ before.halted => halted
    /\ halted # before.halted => Executed /\ ExecutedOp = "Halt" /\ halted
    /\ Executed /\ ExecutedOp = "Halt" =>
          /\ halted
          /\ result = Ok
          /\ pc = before.pc
          /\ stack = before.stack
          /\ call_stack = before.call_stack
    /\ StepFailed => halted = before.halted

\* a Halt was executed below a non-empty stack inside a call, and a later
\* step found the program halted
C11_Witness ==
    /\ phase = "stepped"
    /\ before.halted
    /\ halted
    /\ tokens[pc + 1].token.op = "Halt"
    /\ call_stack # <<>>

\* C12: a step() taken when the program is halted or pc is at or past the
\* number of instructions returns success and leaves pc, the operand stack,
\* the call stack, halted and the output unchanged.
C12_NoOpStep ==
    phase \in {"stepped", "panicked"} /\ (before.halted \/ before.pc >= Len(tokens)) =>
        /\ result = Ok
        /\ phase = "stepped"
        /\ ProgramUnchanged
        /\ output = before.output

\* a step() was taken past the last instruction of a program that never
\* halted
C12_Witness ==
    /\ phase = "stepped"
    /\ ~before.halted
    /\ before.pc >= Len(tokens)
    /\ Len(tokens) > 0
    /\ result = Ok

\* C13: once parse() has succeeded, and after every step() whatever it
\* returned, pc lies between 0 and the number of instructions, and so does
\* every label index and every return address on the call stack.
C13_IndicesInRange ==
    phase \in {"parsed", "stepped", "panicked"} =>
        /\ 0 <= pc /\ pc <= Len(tokens)
        /\ \A name \in DOMAIN labels : 0 <= labels[name] /\ labels[name] <= Len(tokens)
        /\ \A i \in 1..Len(call_stack) :
              0 <= call_stack[i] /\ call_stack[i] <= Len(tokens)

\* inside a call, an If found no Else or Then and left pc at the number of
\* instructions
C13_Witness ==
    /\ phase = "stepped"
    /\ result.kind = "UnclosedIfStatement"
    /\ pc = Len(tokens)
    /\ call_stack # <<>>
    /\ labels # <<>>

\* the number of instruction lines above the first line declaring name
LabelIndex(src, name) ==
    LET n == Min({m \in 1..Len(src) : IsLabelLine(src[m]) /\ LabelName(src[m]) = name})
    IN Cardinality({m \in 1..(n - 1) : IsInstructionLine(src[m])})

\* C19: an executed Call appends its own index + 1 to the call stack and
\* sets pc to the number of instructions above the declaration of its label;
\* an executed Return with a non-empty call stack removes the last return
\* address and makes it pc; every pending return address is the index after
\* a Call, so a Return lands behind the Call it matches; a Return with an
\* empty call stack returns CallStackUnderflow and leaves pc in place; no
\* other step changes the call stack; Call and Return leave the operand
\* stack alone.
C19_CallReturn ==
    /\ (Executed /\ ExecutedOp = "Call") =>
          /\ result = Ok
          /\ call_stack = Append(before.call_stack, before.pc + 1)
          /\ pc = LabelIndex(lines, ExecutedToken.token.label)
          /\ stack = before.stack
    /\ (Executed /\ ExecutedOp = "Return" /\ before.call_stack # <<>>) =>
          /\ result = Ok
          /\ pc = before.call_stack[Len(before.call_stack)]
          /\ call_stack = SubSeq(before.call_stack, 1, Len(before.call_stack) - 1)
          /\ stack = before.stack
    /\ (Executed /\ ExecutedOp = "Return" /\ before.call_stack = <<>>) =>
          /\ result = ErrorOn("CallStackUnderflow", ExecutedToken)
          /\ pc = before.pc
          /\ call_stack = <<>>
          /\ stack = before.stack
    /\ ~(Executed /\ ExecutedOp \in {"Call", "Return"}) =>
          call_stack = before.call_stack
    /\ \A i \in 1..Len(call_stack) :
          /\ call_stack[i] >= 1
          /\ tokens[call_stack[i]].token.op = "Call"

\* a Return inside a nested call took the inner return address, which
\* differs from the outer one
C19_Witness ==
    /\ Executed
    /\ ExecutedOp = "Return"
    /\ result = Ok
    /\ Len(before.call_stack) >= 2
    /\ before.call_stack[1] # before.call_stack[2]
    /\ pc = before.call_stack[2]

Max(S) == CHOOSE x \in S : \A y \in S : x >= y

\* the innermost If still open at instruction i (0-based): the last If before
\* i from which one more If than Then has been read; -1 when none is open
OpenIfAt(i) ==
    LET S == {j \in 0..(i - 1) :
                 /\ tokens[j + 1].token.op = "If"
                 /\ CountOp("If", j, i - 1) - CountOp("Then", j, i - 1) = 1}
    IN IF S = {} THEN -1 ELSE Max(S)

\* the fault of the instruction at i, "None" when it has none
StructuralFault(i) ==
    LET op == tokens[i + 1].token.op
        open == OpenIfAt(i)
    IN IF op = "Else" /\ open = -1 THEN "ElseWithoutIfStatement"
       ELSE IF op = "Else" /\ \E k \in (open + 1)..(i - 1) :
                                 tokens[k + 1].token.op = "Else" /\ OpenIfAt(k) = open
       THEN "TooManyElseStatements"
       ELSE IF op = "Then" /\ open = -1 THEN "ThenWithoutIfStatement"
       ELSE "None"

Offenders == {i \in 0..(Len(tokens) - 1) : StructuralFault(i) # "None"}

\* what the structural check is to return for the instructions read
StructuralVerdict ==
    IF Offenders = {} THEN Ok
    ELSE ErrorOn(StructuralFault(Min(Offenders)), tokens[Min(Offenders) + 1])

\* C20: the structural check returns the fault of the first offending
\* instruction (an Else with no open If, a second Else of the same open If, a
\* Then with no open If) and success when no instruction offends, whether or
\* not every If is closed; when every line was read without fault, parse()
\* returns that structural error even if a call is undefined, and reports
\* an undefined call only when the structural check succeeded.
C20_StructuralCheck ==
    /\ check_if_statements(tokens) = StructuralVerdict
    /\ (phase # "new" /\ DuplicateLabelLines(lines) \cup BadArgumentLines(lines) = {}) =>
          /\ Offenders # {} => phase = "rejected" /\ result = StructuralVerdict
          /\ Offenders = {} => result.kind \notin StructuralErrors
          /\ (Offenders = {} /\ UndefinedCallLines(lines) = {}) => phase # "rejected"
          /\ result.kind = "InvalidCall" => Offenders = {}

\* a second Else of one If in a program that also calls an undeclared name
C20_Witness ==
    /\ phase = "rejected"
    /\ result.kind = "TooManyElseStatements"
    /\ UndefinedCallLines(lines) # {}
    /\ CountOp("If", 0, Len(tokens) - 1) > CountOp("Then", 0, Len(tokens) - 1)

\* the lines on which the loop of parse() over the lines stops with an error
LineFaults(src) == DuplicateLabelLines(src) \cup BadArgumentLines(src)

\* C14: when the first line on which parse() stops declares a name that an
\* earlier line declared in any letter case, parse() returns DuplicateLabel
\* with that line's text and number; a label always maps to the number of
\* instructions above its first declaration; and an executed Call lands
\* there whatever the letter case it is written in.
C14_DuplicateLabel ==
    /\ (phase # "new" /\ LineFaults(lines) # {}
           /\ Min(LineFaults(lines)) \in DuplicateLabelLines(lines)) =>
          LET n == Min(LineFaults(lines)) IN
          /\ phase = "rejected"
          /\ result = ParseErrorAt("DuplicateLabel", lines[n][1], n)
    /\ result.kind = "DuplicateLabel" => result.line_number \in DuplicateLabelLines(lines)
    /\ \A name \in DOMAIN labels :
          /\ name \in DeclaredNames(lines)
          /\ labels[name] = LabelIndex(lines, name)
    /\ (Executed /\ ExecutedOp = "Call" /\ result = Ok) =>
          pc = LabelIndex(lines, to_uppercase(lines[ExecutedToken.line_number][1]))

\* a second declaration, in the other letter case and below an instruction,
\* was rejected and the label still has the index of the first
C14_Witness ==
    /\ phase = "rejected"
    /\ result.kind = "DuplicateLabel"
    /\ LET n == result.line_number
           first == Min({m \in 1..Len(lines) :
                            IsLabelLine(lines[m]) /\ LabelName(lines[m]) = LabelName(lines[n])})
       IN /\ lines[first][1] # lines[n][1]
          /\ labels[LabelName(lines[n])] <
                Cardinality({m \in 1..(n - 1) : IsInstructionLine(lines[m])})

\* the Program after k calls of step(), whatever they returned
RECURSIVE AfterSteps(_, _, _)
AfterSteps(p, k, checks) ==
    IF k = 0 THEN p
    ELSE LET o == step(p, checks) IN
         AfterSteps([p EXCEPT !.pc = o.pc, !.call_stack = o.call_stack,
                              !.stack = o.stack, !.halted = o.halted],
                    k - 1, checks)

\* the Program that Program::new and parse() make of src
Parsed(src, size) ==
    [tokens |-> parse(src).tokens, labels |-> parse(src).labels, pc |-> 0,
     call_stack |-> <<>>, stack |-> <<>>, stack_size |-> size, halted |-> FALSE]

\* src with its last two PUSH lines exchanged
SwappedPushes(src) ==
    LET n == Len(src) IN
    [src EXCEPT ![n - 2] = src[n - 1], ![n - 1] = src[n - 2]]

\* the last step executed the Add or the Sub that ends a source of pushes
ArithExecuted(bin_op) ==
    /\ lines \in ArithSources
    /\ Executed
    /\ ExecutedOp = "BinOp"
    /\ ExecutedToken.token.bin_op = bin_op

\* the values pushed below the two operands, and the two operands
ArithOriginal == [i \in 1..(Len(tokens) - 3) |-> tokens[i].token.value]
ArithA == tokens[Len(tokens) - 2].token.value
ArithB == tokens[Len(tokens) - 1].token.value

\* C15: Push a, Push b, Add on a stack with room for two more elements
\* leaves the original stack with (a + b) mod 256 on top and pc three
\* instructions on, and Push b, Push a, Add leaves the same stack and pc.
C15_AddCommutes ==
    ArithExecuted("Add") =>
        LET swapped == AfterSteps(Parsed(SwappedPushes(lines), stack_size),
                                  Len(tokens), overflow_checks)
        IN /\ result = Ok
           /\ before.stack = ArithOriginal \o <<ArithA, ArithB>>
           /\ stack = Append(ArithOriginal, (ArithA + ArithB) % (U8Max + 1))
           /\ pc = (Len(tokens) - 3) + 3
           /\ swapped.stack = stack
           /\ swapped.pc = pc

\* two different bytes whose sum wraps were added above another value
C15_Witness ==
    /\ ArithExecuted("Add")
    /\ ArithOriginal # <<>>
    /\ ArithA # ArithB
    /\ ArithA + ArithB > U8Max
    /\ result = Ok
    /\ Len(stack) = Len(ArithOriginal) + 1

\* C16: Push a, Push b, Sub replaces the two values by (a - b) mod 256: the
\* value pushed last is subtracted from the one beneath it, wrapping below
\* zero; 10 and 3 leave 7, 3 and 10 leave 249.
C16_SubWraps ==
    ArithExecuted("Sub") =>
        /\ result = Ok
        /\ before.stack = ArithOriginal \o <<ArithA, ArithB>>
        /\ stack = Append(ArithOriginal,
                          IF ArithA >= ArithB THEN ArithA - ArithB
                                              ELSE U8Max + 1 - (ArithB - ArithA))
        /\ pc = before.pc + 1
        /\ (ArithA = 10 /\ ArithB = 3) => stack[Len(stack)] = 7
        /\ (ArithA = 3 /\ ArithB = 10) => stack[Len(stack)] = 249

\* 10 was subtracted from 3
C16_Witness ==
    /\ ArithExecuted("Sub")
    /\ ArithA = 3
    /\ ArithB = 10
    /\ stack = <<249>>

\* the Program the last step() started from
ProgramBefore ==
    [Program EXCEPT !.pc = before.pc, !.call_stack = before.call_stack,
                    !.stack = before.stack, !.halted = before.halted]

\* the outcome of the last step agrees with o in what was returned (success
\* or the kind of error), in the operand stack and in pc
SameOutcome(o) ==
    /\ result.kind = o.result.kind
    /\ stack = o.stack
    /\ pc = o.pc

\* C17: on a stack of at least one element, full or not, an executed Dup
\* gives what Pick(0) gives from the same state, and an executed Pick(0) what
\* Dup gives: success, the top element pushed once more, pc one further.
C17_PickZeroIsDup ==
    (Executed /\ Len(before.stack) >= 1) =>
        /\ ExecutedOp = "Dup" =>
              /\ SameOutcome(step_Pick(ProgramBefore,
                                       AnnotatedToken(TokPick(usize(0)), ExecutedToken.line_number),
                                       overflow_checks))
              /\ result = Ok
        /\ (ExecutedOp = "Pick" /\ ExecutedToken.token.index = usize(0)) =>
              /\ SameOutcome(step_Dup(ProgramBefore,
                                      AnnotatedToken(Tok("Dup"), ExecutedToken.line_number)))
              /\ result = Ok
              /\ stack = Append(before.stack, before.stack[Len(before.stack)])
              /\ pc = before.pc + 1

\* Pick(0) was stepped on a stack that was at capacity
C17_Witness ==
    /\ Executed
    /\ ExecutedOp = "Pick"
    /\ ExecutedToken.token.index = usize(0)
    /\ Len(before.stack) = stack_size
    /\ result = Ok
    /\ Len(stack) = stack_size + 1

\* a byte written in decimal: one to three digits, no leading zero
Decimal(n) ==
    IF n < 10 THEN <<48 + n>>
    ELSE IF n < 100 THEN <<48 + (n \div 10), 48 + (n % 10)>>
    ELSE <<48 + (n \div 100), 48 + ((n \div 10) % 10), 48 + (n % 10)>>

\* the last step executed a print instruction on a non-empty stack
Printed ==
    /\ Executed
    /\ ExecutedOp \in {"PrintByte", "PrintChar"}
    /\ before.stack # <<>>

\* C18: nothing is written before the first step; a PrintByte or PrintChar
\* stepped on a non-empty stack succeeds and appends exactly one item to the
\* output, the popped byte in decimal or the character with that code; every
\* other step, a failed print included, leaves the output as it was.  The
\* source PUSH 5 / PUSH 3 / ADD / PRINT_BYTE / HALT runs without error and is
\* halted with the output 8 and the empty stack.
C18_Output ==
    /\ phase \in {"new", "parsed", "rejected"} => output = <<>>
    /\ Printed =>
          LET top == before.stack[Len(before.stack)] IN
          /\ result = Ok
          /\ output = Append(before.output,
                             IF ExecutedOp = "PrintByte" THEN Decimal(top) ELSE <<top>>)
          /\ stack = SubSeq(before.stack, 1, Len(before.stack) - 1)
    /\ ~Printed => output = before.output
    /\ lines = Src_Add =>
          /\ phase \notin {"rejected", "panicked"}
          /\ phase = "stepped" => result = Ok
          /\ halted => Text(output) = <<56>> /\ stack = <<>>
          /\ (phase = "stepped" /\ before.pc = 4) => halted

\* the scenario has halted after printing 8
C18_Witness ==
    /\ lines = Src_Add
    /\ halted
    /\ output = <<(<<56>>)>>
    /\ stack = <<>>

\* every If of the program has a Then that closes it
Balanced ==
    \A i \in 0..(Len(tokens) - 1) :
        tokens[i + 1].token.op = "If" => ThenCandidates(i) # {}

\* C21: in a parsed program whose Ifs all have their Then, no step()
\* returns UnclosedIfStatement, however pc came to the If or Else it
\* executes.
C21_BalancedNeverUnclosed ==
    (phase \in {"stepped", "panicked"} /\ Balanced) =>
        result.kind # "UnclosedIfStatement"

\* inside a call that landed on it, an Else of a balanced program scanned
\* past a nested conditional to its own Then
C21_Witness ==
    /\ Balanced
    /\ Executed
    /\ ExecutedOp = "Else"
    /\ result = Ok
    /\ before.call_stack # <<>>
    /\ \E name \in DOMAIN labels : labels[name] = before.pc
    /\ pc > before.pc + 2

(***************************************************************************)
(* C22.  Once pc is the number of instructions and halted is false, every  *)
(* later step() returns success and changes nothing, so the driver loop    *)
(* while !program.halted never ends on such a run; the loop ends only on a *)
(* Halt (run() returns) or on a runtime error (the process exits).         *)
(* Refuted for the driver in verbose or step mode: the loop indexes        *)
(* tokens[pc] before it calls step(), and past the last instruction that   *)
(* index is out of bounds, so the process panics instead of looping.       *)
(***************************************************************************)
C22_RunOffEndNeverEnds ==
    /\ (phase \in {"stepped", "panicked", "exited", "returned"}
           /\ before.pc >= Len(tokens) /\ ~before.halted) =>
          /\ phase = "stepped"
          /\ result = Ok
          /\ ProgramUnchanged
          /\ output = before.output
    /\ phase = "returned" => halted
    /\ phase = "stepped" => result = Ok
    /\ phase = "exited" => result.kind \notin {"Ok", "Panic"}

====
